---- MODULE Spec2Model ----
(***************************************************************************)
(* solana-accounts-observer: the command-line dispatch of main and the     *)
(* five handlers show_mint, show_account, show_metadata,                   *)
(* show_master_edition and show_nft of src/main.rs, as a state machine.    *)
(*                                                                         *)
(* One behaviour is one invocation of the binary.  Every statement of a    *)
(* handler is one action; `pc` names the source line the process is at.    *)
(* `.unwrap()` on an Err/None and `unreachable!()` end the process in the  *)
(* state pc = "panicked".  The RPC node, the account decoders and the      *)
(* hash/curve test behind Pubkey::find_program_address are not part of     *)
(* the repository: the node and the decoders answer nondeterministically   *)
(* (Ok or Err), the curve test is an oracle sampled once per seed list.    *)
(* `trace` is a history variable: the calls, answers, prints and the       *)
(* panic of the invocation, in order.                                      *)
(***************************************************************************)
EXTENDS Integers, Sequences, FiniteSets, TLC

\* ------------------------------------------------------------------ bounds
MaxAddresses == 2     \* distinct address arguments a command line may carry
MaxBuffers == 2       \* distinct account buffers the node may return
MaxOnCurveRun == 1    \* bumps 256-MaxOnCurveRun..255 are on/off curve freely

\* --------------------------------------------------------------- constants
U8_MAX == 255         \* the first bump seed tried
NUM_BUMPS == 256      \* bump seeds 255 down to 0

\* ----------------------------------------------------------------- values
None == <<"None">>
Some(x) == <<"Some", x>>
Ok(x) == <<"Ok", x>>
Err(e) == <<"Err", e>>
IsOk(r) == r[1] = "Ok"
IsErr(r) == r[1] = "Err"
Unit == <<"()">>

\* The metadata program id, spl_token_metadata::ID.
ID == <<"key", 0>>
\* PREFIX and EDITION, the seed literals of spl_token_metadata::state.
PREFIX == "metadata"
EDITION == "edition"

as_bytes(s) == <<"ascii", s>>
as_ref(pubkey) == <<"bytes", pubkey>>

\* Pubkey::from_str(address).unwrap() on an argument the validator accepted.
Pubkey_from_str(address) == <<"key", address>>

Subcommands == {"mint", "account", "metadata", "master-edition", "nft"}
AddressArgs == 1..MaxAddresses
Buffers == {<<"data", i>> : i \in 1..MaxBuffers}

\* The command lines get_matches() accepts: the url option is optional, no
\* subcommand is required, and no subcommand requires its address argument.
AcceptedCommandLines ==
    { [url |-> u, sub |-> s, address |-> a] :
        u \in {None, Some("testnet")},
        s \in Subcommands \cup {""},
        a \in {None} \cup {Some(x) : x \in AddressArgs} }
    \ { c \in [url : {None, Some("testnet")}, sub : {""},
               address : {Some(x) : x \in AddressArgs}] : TRUE }

normalize_to_url_if_moniker(u) == <<"url", u>>
json_rpc_url_of(url) ==
    normalize_to_url_if_moniker(IF url = None THEN "https://api.devnet.solana.com"
                                ELSE url[2])

VARIABLES
    argv,        \* the parsed command line (app_matches)
    pc,          \* the line main or the handler is at; "done"; "panicked"
    client,      \* the RpcClient (its url), None before line 166
    address,     \* the handler's address / mint_address parameter
    rpc,         \* the get_account_data call in progress: [address, ret], or None
    acc_data,    \* the handler's acc_data
    record,      \* the handler's mint_data / account_data / meta_data
    me_key,      \* show_nft's me_key
    meta_key,    \* show_nft's meta_key
    on_curve,    \* the curve oracle: <<seeds, program>> -> the on-curve bumps
    search,      \* the bump search in progress, None outside one
    found,       \* the last search's result: Some(<<address, bump>>) or Exhausted
    returned,    \* what the handler returned to main, None until it returns
    trace        \* history of the invocation

vars == <<argv, pc, client, address, rpc, acc_data, record, me_key, meta_key,
          on_curve, search, found, returned, trace>>

Init ==
    /\ argv \in AcceptedCommandLines
    /\ pc = "main_160"
    /\ client = None
    /\ address = None
    /\ rpc = None
    /\ acc_data = None
    /\ record = None
    /\ me_key = None
    /\ meta_key = None
    /\ on_curve = <<>>
    /\ search = None
    /\ found = None
    /\ returned = None
    /\ trace = <<>>

\* ------------------------------------------------- external collaborators
\* client.get_account_data(&address): the node answers with the account's
\* buffer or the call fails.
get_account_data_results == {Err("ClientError")} \cup {Ok(b) : b \in Buffers}

\* Mint::unpack(data) and Account::unpack(data): a Result.
Mint_unpack(data) == {Ok(<<"Mint", data>>), Err("ProgramError")}
Account_unpack(data) == {Ok(<<"Account", data>>), Err("ProgramError")}

\* try_from_slice_checked::<T>(data, data_type, data_size): a Result.
try_from_slice_checked(T, data, data_type, data_size) ==
    {Ok(<<T, data_type, data_size, data>>), Err("ProgramError")}

\* The sets of on-curve bumps the oracle may answer for one seed list: any
\* subset of the top MaxOnCurveRun bumps, with all or none of the rest.
BumpFamily ==
    { top \cup rest :
        top \in SUBSET ((NUM_BUMPS - MaxOnCurveRun)..U8_MAX),
        rest \in {{}, 0..(U8_MAX - MaxOnCurveRun)} }

\* The oracle's answers for a seed list: fixed once it has been sampled.
Oracle(seeds, program_id) ==
    IF <<seeds, program_id>> \in DOMAIN on_curve
    THEN {on_curve[<<seeds, program_id>>]}
    ELSE BumpFamily

\* Pubkey::create_program_address(seeds ++ [bump], program_id): the digest
\* of the seeds, the bump and the program id, as an address.
create_program_address(seeds, bump, program_id) ==
    <<"pda", seeds, bump, program_id>>

Exhausted == <<"Exhausted">>

\* --------------------------------------------------------------- show_nft
\* lines 55-60 and 72-76: the seed lists.
\* me_key_seeds with the "edition" seed left out.
me_key_seeds_without_edition(mint_address) ==
    <<as_bytes(PREFIX), as_ref(ID), as_ref(mint_address)>>

me_key_seeds(mint_address) ==
    <<as_bytes(PREFIX), as_ref(ID), as_ref(mint_address), as_bytes(EDITION)>>

meta_key_seeds(mint_address) ==
    <<as_bytes(PREFIX), as_ref(ID), as_ref(mint_address)>>

\* ------------------------------------------------------------ statements
PanicEvent(line, value) == <<"panic", line, value>>

\* `client.get_account_data(&addr)` is called at `line`.
GetAccountData(from, line, addr, ret) ==
    /\ pc = from
    /\ rpc' = <<"call", addr, line, ret>>
    /\ trace' = Append(trace, <<"get_account_data", addr>>)
    /\ pc' = "get_account_data"
    /\ UNCHANGED <<argv, client, address, acc_data, record, me_key, meta_key,
                   on_curve, search, found, returned>>

\* `Pubkey::find_program_address(seeds, &program_id)` is called: the search
\* starts at bump 255 with no candidate tried.  The oracle fixes which of
\* the seed list's candidates are curve points.
FindProgramAddress(from, seeds, program_id, ret) ==
    /\ pc = from
    /\ \E S \in Oracle(seeds, program_id) :
        on_curve' = (<<seeds, program_id>> :> S) @@ on_curve
    /\ search' = <<"search", seeds, program_id, U8_MAX, 0, ret>>
    /\ found' = None
    /\ pc' = "find_program_address"
    /\ UNCHANGED <<argv, client, address, rpc, acc_data, record, me_key,
                   meta_key, returned, trace>>

\* One iteration of the bump search of §4.1: the candidate for the current
\* bump is accepted when it is off the curve; otherwise the next lower bump
\* is tried, and the search is exhausted when bump 0 is rejected.
find_program_address_step ==
    /\ pc = "find_program_address"
    /\ LET seeds == search[2]
           program_id == search[3]
           bump == search[4]
           tried == search[5]
           ret == search[6]
           candidate == create_program_address(seeds, bump, program_id)
       IN  IF bump \notin on_curve[<<seeds, program_id>>]
           THEN /\ found' = Some(<<candidate, bump>>)
                /\ search' = <<"search", seeds, program_id, bump, tried + 1, ret>>
                /\ pc' = ret
           ELSE IF bump = 0
           THEN /\ found' = Exhausted
                /\ search' = <<"search", seeds, program_id, bump, tried + 1, ret>>
                /\ pc' = ret
           ELSE /\ found' = found
                /\ search' = <<"search", seeds, program_id, bump - 1, tried + 1, ret>>
                /\ pc' = pc
    /\ UNCHANGED <<argv, client, address, rpc, acc_data, record, me_key,
                   meta_key, on_curve, returned, trace>>

\* The trace's entry for a finished search: the seed list, the program id,
\* the on-curve bumps, the result and the number of candidates tried.
FoundEvent ==
    <<"find_program_address", search[2], search[3],
      on_curve[<<search[2], search[3]>>], found, search[5]>>

\* Decode with the Err swallowed (unwrap_or_default): the handler goes on.
Decode_unwrap_or_default(from, line, call, results, to) ==
    /\ pc = from
    /\ \E r \in results :
        /\ trace' = Append(trace, <<"decode", call, acc_data, r>>)
        /\ record' = IF IsErr(r) THEN record ELSE r[2]
        /\ pc' = to
    /\ UNCHANGED <<argv, client, address, rpc, acc_data, me_key, meta_key,
                   on_curve, search, found, returned>>

\* `let x = <decoder>(acc_data.as_slice(), ..).unwrap();` at `line`.
Decode(from, line, call, results, to) ==
    /\ pc = from
    /\ \E r \in results :
        IF IsErr(r)
        THEN /\ trace' = trace \o <<<<"decode", call, acc_data, r>>,
                                    PanicEvent(line, r)>>
             /\ pc' = "panicked"
             /\ UNCHANGED record
        ELSE /\ trace' = Append(trace, <<"decode", call, acc_data, r>>)
             /\ record' = r[2]
             /\ pc' = to
    /\ UNCHANGED <<argv, client, address, rpc, acc_data, me_key, meta_key,
                   on_curve, search, found, returned>>

\* `println!("{:?}", x);` followed by another statement.
Println(from, to) ==
    /\ pc = from
    /\ trace' = Append(trace, <<"print", record>>)
    /\ pc' = to
    /\ UNCHANGED <<argv, client, address, rpc, acc_data, record, me_key,
                   meta_key, on_curve, search, found, returned>>

\* `println!("{:?}", x);` as the handler's last statement: the handler and
\* then main return.
PrintlnReturn(from) ==
    /\ pc = from
    /\ trace' = Append(trace, <<"print", record>>)
    /\ returned' = Unit
    /\ pc' = "done"
    /\ UNCHANGED <<argv, client, address, rpc, acc_data, record, me_key,
                   meta_key, on_curve, search,
                   found>>

\* One arm of main's match: the address unwrap, the banner, the call.
Dispatch(sub, line, banner, entry) ==
    /\ pc = "main_168"
    /\ argv.sub = sub
    /\ IF argv.address = None
       THEN /\ trace' = Append(trace, PanicEvent(line, None))
            /\ pc' = "panicked"
            /\ UNCHANGED address
       ELSE /\ trace' = Append(trace, <<"stdout", banner>>)
            /\ address' = Pubkey_from_str(argv.address[2])
            /\ pc' = entry
    /\ UNCHANGED <<argv, client, rpc, acc_data, record, me_key, meta_key,
                   on_curve, search, found, returned>>

\* ------------------------------------------------------------------ main
\* lines 160-166: the url, the banner line, the client.
main_160 ==
    /\ pc = "main_160"
    /\ client' = json_rpc_url_of(argv.url)
    /\ trace' = Append(trace, <<"stdout", "RPC Client URL">>)
    /\ pc' = "main_168"
    /\ UNCHANGED <<argv, address, rpc, acc_data, record, me_key, meta_key,
                   on_curve, search, found, returned>>

main_mint == Dispatch("mint", 171, "Showing mint", "show_mint_20")
main_account == Dispatch("account", 176, "Showing account", "show_account_26")
main_metadata ==
    Dispatch("metadata", 181, "Showing metaplex metadata", "show_metadata_32")
main_master_edition ==
    Dispatch("master-edition", 186, "Showing metaplex master edition",
             "show_master_edition_39")
main_nft ==
    Dispatch("nft", 191, "Showing NFT (by Mint address)", "show_nft_50")

\* line 195: every other (sub_command, sub_matches).
main_unreachable ==
    /\ pc = "main_168"
    /\ argv.sub \notin Subcommands
    /\ trace' = Append(trace, PanicEvent(195, <<"unreachable">>))
    /\ pc' = "panicked"
    /\ UNCHANGED <<argv, client, address, rpc, acc_data, record, me_key,
                   meta_key, on_curve, search, found, returned>>

\* rpc_response with a failed call swallowed: the handler goes on with the
\* acc_data it has.
rpc_response_unwrap_or_default ==
    /\ pc = "get_account_data"
    /\ \E r \in get_account_data_results :
        /\ trace' = Append(trace, <<"response", r>>)
        /\ acc_data' = IF IsErr(r) THEN acc_data ELSE r[2]
        /\ pc' = rpc[4]
    /\ rpc' = None
    /\ UNCHANGED <<argv, client, address, record, me_key, meta_key, on_curve,
                   search, found, returned>>

\* rpc_response with a failed call issued again.
rpc_response_retry ==
    /\ pc = "get_account_data"
    /\ \E r \in get_account_data_results :
        IF IsErr(r)
        THEN /\ trace' = trace \o <<<<"response", r>>,
                                    <<"get_account_data", rpc[2]>>>>
             /\ UNCHANGED <<pc, rpc, acc_data>>
        ELSE /\ trace' = Append(trace, <<"response", r>>)
             /\ acc_data' = r[2]
             /\ pc' = rpc[4]
             /\ rpc' = None
    /\ UNCHANGED <<argv, client, address, record, me_key, meta_key, on_curve,
                   search, found, returned>>

\* ------------------------------------------------- the RPC call's answer
\* get_account_data returns and its result is unwrapped.
rpc_response ==
    /\ pc = "get_account_data"
    /\ \E r \in get_account_data_results :
        IF IsErr(r)
        THEN /\ trace' = trace \o <<<<"response", r>>, PanicEvent(rpc[3], r)>>
             /\ pc' = "panicked"
             /\ UNCHANGED acc_data
        ELSE /\ trace' = Append(trace, <<"response", r>>)
             /\ acc_data' = r[2]
             /\ pc' = rpc[4]
    /\ rpc' = None
    /\ UNCHANGED <<argv, client, address, record, me_key, meta_key, on_curve,
                   search, found, returned>>

\* ------------------------------------------------------------- show_mint
show_mint_20 == GetAccountData("show_mint_20", 20, address, "show_mint_21")
show_mint_21 ==
    Decode("show_mint_21", 21, <<"Mint::unpack">>, Mint_unpack(acc_data),
           "show_mint_22")
show_mint_22 == PrintlnReturn("show_mint_22")

\* ---------------------------------------------------------- show_account
show_account_26 ==
    GetAccountData("show_account_26", 26, address, "show_account_27")
show_account_27 ==
    Decode("show_account_27", 27, <<"Account::unpack">>,
           Account_unpack(acc_data), "show_account_28")
show_account_28 == PrintlnReturn("show_account_28")

\* --------------------------------------------------------- show_metadata
show_metadata_32 ==
    GetAccountData("show_metadata_32", 32, address, "show_metadata_33")
\* show_metadata_33 with show_master_edition's key and length.
show_metadata_33_master_edition_schema ==
    Decode("show_metadata_33", 34,
           <<"try_from_slice_checked", "Metadata", "MasterEditionV2",
             "MAX_MASTER_EDITION_LEN">>,
           try_from_slice_checked("Metadata", acc_data, "MasterEditionV2",
                                  "MAX_MASTER_EDITION_LEN"),
           "show_metadata_35")

show_metadata_33 ==
    Decode("show_metadata_33", 34,
           <<"try_from_slice_checked", "Metadata", "MetadataV1",
             "MAX_METADATA_LEN">>,
           try_from_slice_checked("Metadata", acc_data, "MetadataV1",
                                  "MAX_METADATA_LEN"),
           "show_metadata_35")
show_metadata_35 == PrintlnReturn("show_metadata_35")

\* --------------------------------------------------- show_master_edition
show_master_edition_39 ==
    GetAccountData("show_master_edition_39", 39, address,
                   "show_master_edition_40")
show_master_edition_40 ==
    Decode("show_master_edition_40", 45,
           <<"try_from_slice_checked", "MasterEditionV2", "MasterEditionV2",
             "MAX_MASTER_EDITION_LEN">>,
           try_from_slice_checked("MasterEditionV2", acc_data,
                                  "MasterEditionV2", "MAX_MASTER_EDITION_LEN"),
           "show_master_edition_46")
show_master_edition_46 == PrintlnReturn("show_master_edition_46")

\* -------------------------------------------------------------- show_nft
show_nft_50 == GetAccountData("show_nft_50", 50, address, "show_nft_51")
show_nft_51 ==
    Decode("show_nft_51", 51, <<"Mint::unpack">>, Mint_unpack(acc_data),
           "show_nft_52")
show_nft_52 == Println("show_nft_52", "show_nft_55")

\* lines 55-61: the seed list, and Pubkey::find_program_address is called.
show_nft_55 ==
    FindProgramAddress("show_nft_55", me_key_seeds(address), ID, "show_nft_61")

\* show_nft_61 taking the candidate of bump 255 whatever the search found.
show_nft_61_fixed_bump ==
    /\ pc = "show_nft_61"
    /\ IF found = Exhausted
       THEN /\ trace' = trace \o <<FoundEvent, PanicEvent(61, Exhausted)>>
            /\ pc' = "panicked"
            /\ UNCHANGED me_key
       ELSE /\ trace' = Append(trace, FoundEvent)
            /\ me_key' = create_program_address(search[2], U8_MAX, search[3])
            /\ pc' = "show_nft_62"
    /\ search' = None
    /\ UNCHANGED <<argv, client, address, rpc, acc_data, record, meta_key,
                   on_curve, found, returned>>

\* line 61: `.0` of the call's value; the call has no failure value, an
\* exhausted search ends the process.
show_nft_61 ==
    /\ pc = "show_nft_61"
    /\ IF found = Exhausted
       THEN /\ trace' = trace \o <<FoundEvent, PanicEvent(61, Exhausted)>>
            /\ pc' = "panicked"
            /\ UNCHANGED me_key
       ELSE /\ trace' = Append(trace, FoundEvent)
            /\ me_key' = found[2][1]
            /\ pc' = "show_nft_62"
    /\ search' = None
    /\ UNCHANGED <<argv, client, address, rpc, acc_data, record, meta_key,
                   on_curve, found, returned>>

show_nft_62 == GetAccountData("show_nft_62", 62, me_key, "show_nft_63")
show_nft_63 ==
    Decode("show_nft_63", 68,
           <<"try_from_slice_checked", "MasterEditionV2", "MasterEditionV2",
             "MAX_MASTER_EDITION_LEN">>,
           try_from_slice_checked("MasterEditionV2", acc_data,
                                  "MasterEditionV2", "MAX_MASTER_EDITION_LEN"),
           "show_nft_69")
show_nft_69 == Println("show_nft_69", "show_nft_72")

\* lines 72-77: the seed list, and Pubkey::find_program_address is called.
show_nft_72 ==
    FindProgramAddress("show_nft_72", meta_key_seeds(address), ID,
                       "show_nft_77")

\* show_nft_77 going on with a default key when the search is exhausted.
show_nft_77_unwrap_or_default ==
    /\ pc = "show_nft_77"
    /\ trace' = Append(trace, FoundEvent)
    /\ meta_key' = IF found = Exhausted THEN ID ELSE found[2][1]
    /\ pc' = "show_nft_79"
    /\ search' = None
    /\ UNCHANGED <<argv, client, address, rpc, acc_data, record, me_key,
                   on_curve, found, returned>>

\* line 77: `.0` of the call's value.
show_nft_77 ==
    /\ pc = "show_nft_77"
    /\ IF found = Exhausted
       THEN /\ trace' = trace \o <<FoundEvent, PanicEvent(77, Exhausted)>>
            /\ pc' = "panicked"
            /\ UNCHANGED meta_key
       ELSE /\ trace' = Append(trace, FoundEvent)
            /\ meta_key' = found[2][1]
            /\ pc' = "show_nft_79"
    /\ search' = None
    /\ UNCHANGED <<argv, client, address, rpc, acc_data, record, me_key,
                   on_curve, found, returned>>

show_nft_79 == GetAccountData("show_nft_79", 79, meta_key, "show_nft_80")
show_nft_80 ==
    Decode("show_nft_80", 81,
           <<"try_from_slice_checked", "Metadata", "MetadataV1",
             "MAX_METADATA_LEN">>,
           try_from_slice_checked("Metadata", acc_data, "MetadataV1",
                                  "MAX_METADATA_LEN"),
           "show_nft_82")
show_nft_82 == PrintlnReturn("show_nft_82")

Next ==
    \/ main_160
    \/ main_mint
    \/ main_account
    \/ main_metadata
    \/ main_master_edition
    \/ main_nft
    \/ main_unreachable
    \/ rpc_response
    \/ show_mint_20
    \/ show_mint_21
    \/ show_mint_22
    \/ show_account_26
    \/ show_account_27
    \/ show_account_28
    \/ show_metadata_32
    \/ show_metadata_33
    \/ show_metadata_35
    \/ show_master_edition_39
    \/ show_master_edition_40
    \/ show_master_edition_46
    \/ show_nft_50
    \/ show_nft_51
    \/ show_nft_52
    \/ show_nft_55
    \/ find_program_address_step
    \/ show_nft_61
    \/ show_nft_62
    \/ show_nft_63
    \/ show_nft_69
    \/ show_nft_72
    \/ show_nft_77
    \/ show_nft_79
    \/ show_nft_80
    \/ show_nft_82

Spec == Init /\ [][Next]_vars

\* ------------------------------------------------------ reading the trace
Idx(tag) == {i \in DOMAIN trace : trace[i][1] = tag}
Fetches == Idx("get_account_data")
Responses == Idx("response")
Decodes == Idx("decode")
Finds == Idx("find_program_address")
Prints == Idx("print")
Panics == Idx("panic")
OkResponses == {i \in Responses : IsOk(trace[i][2])}
OkDecodes == {i \in Decodes : IsOk(trace[i][4])}
\* A step of the lookup that failed: a fetch, a decode or a derivation.
Failures ==
    {i \in Responses : IsErr(trace[i][2])}
    \cup {i \in Decodes : IsErr(trace[i][4])}
    \cup {i \in Finds : trace[i][5] = Exhausted}
FailureValue(i) ==
    IF trace[i][1] = "response" THEN trace[i][2]
    ELSE IF trace[i][1] = "decode" THEN trace[i][4]
    ELSE Exhausted
FetchSeq == SelectSeq(trace, LAMBDA e : e[1] = "get_account_data")
PrintSeq == SelectSeq(trace, LAMBDA e : e[1] = "print")
\* The buffers the node answered for address a.
DataAt(a) == {trace[i + 1][2][2] : i \in {j \in Fetches : trace[j][2] = a /\ j + 1 \in OkResponses}}
HandlerCalled == address # None
Terminated == pc \in {"done", "panicked"}
SingleKinds == {"mint", "account", "metadata", "master-edition"}

\* ------------------------------------------------------------- the claims

\* C1, as stated: in a FullNft lookup a record of the view is emitted only
\* if all three fetches and all three decodes succeeded; a lookup that has
\* ended with a record emitted has three answered fetches and three decodes.
C1_NoPartialView ==
    (argv.sub = "nft" /\ Terminated /\ Prints # {}) =>
        /\ Cardinality(OkResponses) = 3
        /\ Cardinality(OkDecodes) = 3

\* C1, amended: in a FullNft lookup each record is emitted right after its
\* own fetch was answered and its own buffer decoded, in the order mint,
\* master edition, metadata; the record emitted is the decoded one; all
\* three are emitted only if all three fetches and decodes succeeded; a
\* failure after the first record leaves the earlier records emitted.
C1_RecordsOnlyAfterOwnSteps ==
    argv.sub = "nft" =>
        /\ \A i \in Prints :
            /\ i >= 4
            /\ i - 1 \in OkDecodes
            /\ trace[i][2] = trace[i - 1][4][2]
            /\ i - 2 \in OkResponses
            /\ trace[i - 1][3] = trace[i - 2][2][2]
            /\ i - 3 \in Fetches
        /\ \A k \in 1..Len(PrintSeq) :
            /\ k <= 3
            /\ PrintSeq[k][2][1] = <<"Mint", "MasterEditionV2", "Metadata">>[k]
        /\ Cardinality(Prints) <= Cardinality(OkDecodes)
        /\ Cardinality(OkDecodes) <= Cardinality(OkResponses)
        /\ Cardinality(Prints) = 3 =>
            (Cardinality(OkResponses) = 3 /\ Cardinality(OkDecodes) = 3)

\* C1 witness: the lookup has failed with the mint and the master edition
\* already printed.
C1_PartialViewEmitted ==
    argv.sub = "nft" /\ pc = "panicked" /\ Cardinality(Prints) = 2

\* The address derive(program_id, seeds) of §4.1 under the oracle: the
\* candidate of the first bump, from 255 down, that is off the curve.
SpecDerive(program_id, seeds) ==
    IF <<seeds, program_id>> \notin DOMAIN on_curve THEN None
    ELSE LET S == on_curve[<<seeds, program_id>>]
         IN  IF \A b \in 0..U8_MAX : b \in S THEN None
             ELSE LET b == CHOOSE b \in 0..U8_MAX :
                              b \notin S /\ \A c \in (b + 1)..U8_MAX : c \in S
                  IN  create_program_address(seeds, b, program_id)

\* C2: a FullNft lookup for mint m that succeeds has fetched exactly three
\* addresses, m, derive(ID, ["metadata", ID, m]) and derive(ID, ["metadata",
\* ID, m, "edition"]), and has emitted the Mint decode of the buffer at m,
\* the MasterEdition decode of the buffer at the edition address and the
\* Metadata decode of the buffer at the metadata address.
C2_FullNftView ==
    (pc = "done" /\ argv.sub = "nft") =>
        LET m == Pubkey_from_str(argv.address[2])
            metadata == SpecDerive(ID, <<as_bytes("metadata"), as_ref(ID),
                                         as_ref(m)>>)
            edition == SpecDerive(ID, <<as_bytes("metadata"), as_ref(ID),
                                        as_ref(m), as_bytes("edition")>>)
        IN  /\ Len(FetchSeq) = 3
            /\ {FetchSeq[i][2] : i \in 1..Len(FetchSeq)} = {m, metadata, edition}
            /\ Len(PrintSeq) = 3
            /\ \E d \in DataAt(m) : Ok(PrintSeq[1][2]) \in Mint_unpack(d)
            /\ \E d \in DataAt(edition) :
                Ok(PrintSeq[2][2]) \in
                    try_from_slice_checked("MasterEditionV2", d,
                        "MasterEditionV2", "MAX_MASTER_EDITION_LEN")
            /\ \E d \in DataAt(metadata) :
                Ok(PrintSeq[3][2]) \in
                    try_from_slice_checked("Metadata", d, "MetadataV1",
                                           "MAX_METADATA_LEN")

\* C2 witness: a FullNft lookup has returned, its two derivations having
\* rejected different numbers of candidates.
C2_FullNftDone ==
    /\ pc = "done"
    /\ argv.sub = "nft"
    /\ me_key[3] # meta_key[3]

\* The source line of the failing call of trace entry i.
FailingLine(i) ==
    LET kind == trace[i][1]
        k == Cardinality({j \in Idx(kind) : j <= i})
    IN  IF kind = "response"
        THEN CASE argv.sub = "mint" -> 20
               [] argv.sub = "account" -> 26
               [] argv.sub = "metadata" -> 32
               [] argv.sub = "master-edition" -> 39
               [] argv.sub = "nft" -> <<50, 62, 79>>[k]
        ELSE IF kind = "decode"
        THEN CASE argv.sub = "mint" -> 21
               [] argv.sub = "account" -> 27
               [] argv.sub = "metadata" -> 34
               [] argv.sub = "master-edition" -> 45
               [] argv.sub = "nft" -> <<51, 68, 81>>[k]
        ELSE <<61, 77>>[k]

\* C3, as stated: a lookup in which a derive, fetch or decode step failed
\* ends with an error value that names the failing step and its address.
C3_SingleTaggedError ==
    (Terminated /\ Failures # {}) =>
        /\ IsErr(returned)
        /\ \E i \in Failures : returned[2][1] = trace[i][1]

\* C3, amended: every error is terminal: once a derive, fetch or decode step
\* fails no later step is performed, and the lookup ends with exactly one
\* panic, raised at the failing call's line with that call's error value;
\* the handler returns no value.
C3_ErrorsAreTerminalPanics ==
    /\ Cardinality(Panics) <= 1
    /\ Cardinality(Failures) <= 1
    /\ (pc = "panicked") <=> (Panics # {})
    /\ \A i \in Panics : i = Len(trace)
    /\ \A i \in Failures :
        /\ i + 1 = Len(trace)
        /\ i + 1 \in Panics
        /\ trace[i + 1][2] = FailingLine(i)
        /\ trace[i + 1][3] = FailureValue(i)
        /\ returned = None

\* C3 witness: the third decode of a FullNft lookup has failed.
C3_ThirdDecodeFailed ==
    /\ argv.sub = "nft"
    /\ pc = "panicked"
    /\ Cardinality(OkDecodes) = 2
    /\ Cardinality(Decodes) = 3

\* The decoder call of each single-kind lookup.
SchemaCall(sub) ==
    CASE sub = "mint" -> <<"Mint::unpack">>
      [] sub = "account" -> <<"Account::unpack">>
      [] sub = "metadata" ->
            <<"try_from_slice_checked", "Metadata", "MetadataV1",
              "MAX_METADATA_LEN">>
      [] sub = "master-edition" ->
            <<"try_from_slice_checked", "MasterEditionV2", "MasterEditionV2",
              "MAX_MASTER_EDITION_LEN">>

\* C4: a single-kind lookup with root identifier a performs exactly one
\* fetch, for a itself, derives no address, and decodes the fetched buffer
\* with the decoder, tag and maximum length of the requested kind only.
C4_SingleKindLookup ==
    (argv.sub \in SingleKinds /\ HandlerCalled) =>
        /\ address = Pubkey_from_str(argv.address[2])
        /\ \A i \in Fetches : trace[i][2] = address
        /\ Cardinality(Fetches) <= 1
        /\ Terminated => Cardinality(Fetches) = 1
        /\ Finds = {}
        /\ search = None /\ me_key = None /\ meta_key = None
        /\ \A i \in Decodes :
            /\ trace[i][2] = SchemaCall(argv.sub)
            /\ trace[i][3] \in DataAt(address)
        /\ Cardinality(Decodes) <= 1
        /\ pc = "done" =>
            /\ Cardinality(OkDecodes) = 1
            /\ \A i \in OkDecodes : PrintSeq = <<<<"print", trace[i][4][2]>>>>

\* C4 witness: a metadata lookup has returned.
C4_MetadataLookupDone ==
    pc = "done" /\ argv.sub = "metadata"

\* The candidate address k is a curve point.
OnCurve(k) == k[3] \in on_curve[<<k[2], k[4]>>]

\* C5: a derivation that succeeds returns the first bump, walking down from
\* 255, whose candidate is off the curve: its candidate is off the curve,
\* the candidates of all higher bumps are on it, and the address the lookup
\* goes on with is that candidate, never a curve point.
C5_FirstOffCurveBump ==
    /\ \A i \in Finds :
        trace[i][5] # Exhausted =>
            LET seeds == trace[i][2]
                S == trace[i][4]
                bump == trace[i][5][2][2]
            IN  /\ bump \in 0..U8_MAX
                /\ bump \notin S
                /\ \A c \in (bump + 1)..U8_MAX : c \in S
                /\ trace[i][5][2][1] =
                       create_program_address(seeds, bump, trace[i][3])
    /\ \A k \in {me_key, meta_key} \ {None} :
        /\ ~OnCurve(k)
        /\ \E i \in Finds : trace[i][5] = Some(<<k, k[3]>>)
    /\ \A i \in Fetches : trace[i][2][1] = "pda" => ~OnCurve(trace[i][2])

\* C5 witness: a derivation rejected the candidate of bump 255 and the
\* lookup went on with the candidate of bump 254.
C5_CandidateRejected ==
    /\ me_key # None
    /\ me_key[3] = U8_MAX - 1

\* C6, as stated: when all 256 candidates are curve points derive returns
\* the failure value NoValidBumpFound, which the lookup surfaces as an error
\* result; the process does not panic.
C6_ExhaustionIsErrorResult ==
    (Terminated /\ \E i \in Finds : trace[i][5] = Exhausted) =>
        /\ pc # "panicked"
        /\ IsErr(returned)

\* C6, amended: when all 256 candidates are curve points the search ends
\* after exactly 256 candidates (no search tries more), and the lookup ends
\* there with a panic at the line of the find_program_address call: no
\* later step is performed and no error result is returned.
C6_ExhaustionPanics ==
    /\ search # None => search[5] <= NUM_BUMPS
    /\ \A i \in Finds :
        /\ trace[i][6] <= NUM_BUMPS
        /\ (trace[i][5] = Exhausted) <=> (trace[i][4] = 0..U8_MAX)
        /\ trace[i][5] = Exhausted =>
            /\ trace[i][6] = NUM_BUMPS
            /\ i + 1 = Len(trace)
            /\ trace[i + 1] \in {PanicEvent(61, Exhausted),
                                 PanicEvent(77, Exhausted)}
            /\ pc = "panicked"
            /\ returned = None

\* C6 witness: the search for the metadata address was exhausted.
C6_MetadataSearchExhausted ==
    /\ pc = "panicked"
    /\ Len(trace) > 1
    /\ trace[Len(trace)] = PanicEvent(77, Exhausted)

\* C9: a lookup is strictly sequential with no retries: at most one fetch
\* is in progress, every answered buffer is decoded before anything else
\* happens, no derivation runs with an undecoded buffer, and no address is
\* fetched twice: at most one fetch in a single-kind lookup, three in a
\* FullNft lookup.
C9_SequentialNoRetry ==
    LET inflight == Cardinality(Fetches) - Cardinality(Responses)
    IN  /\ inflight \in {0, 1}
        /\ (inflight = 1) <=> (pc = "get_account_data")
        /\ (inflight = 1) <=> (rpc # None)
        /\ \A i \in Fetches : i < Len(trace) => i + 1 \in Responses
        /\ \A i \in OkResponses :
            i < Len(trace) =>
                /\ i + 1 \in Decodes
                /\ trace[i + 1][3] = trace[i][2][2]
        /\ search # None => Cardinality(OkResponses) = Cardinality(Decodes)
        /\ \A i, j \in Fetches : i # j => trace[i][2] # trace[j][2]
        /\ Cardinality(Fetches) <= IF argv.sub = "nft" THEN 3 ELSE 1

\* C9 witness: the third fetch of a FullNft lookup is in progress.
C9_ThirdFetchInProgress ==
    /\ pc = "get_account_data"
    /\ Cardinality(Fetches) = 3
    /\ Cardinality(Decodes) = 2

\* C10: the unreachable!() arm of main's match is never reached and no
\* address unwrap fails: main never panics.
C10_DispatchNeverPanics ==
    \A i \in Panics : trace[i][2] \notin {171, 176, 181, 186, 191, 195}
====
